---- MODULE Spec2Model ----
(***************************************************************************)
(* Model of the book-organizer document service: the file classifier, the  *)
(* document and book services, the Postgres metadata repository and the    *)
(* bucket blob store, as far as their observable state goes.               *)
(*                                                                         *)
(* Go strings that the code takes apart (keys, names, paths) are tuples of *)
(* one-character strings; "" is <<>>.  Type, description and error texts   *)
(* are only compared, so they stay TLA+ strings.                           *)
(***************************************************************************)
EXTENDS Integers, Sequences, FiniteSets, TLC

----------------------------------------------------------------------------
(* Bounds of the model. *)

\* number of identifiers uuid.New() hands out in a run
MaxIds == 2

----------------------------------------------------------------------------
(* Strings: path/filepath and strings functions used by Scan. *)

HasPrefixAt(s, old, i) ==
  \* old occurs in s starting at index i (1-based)
  /\ i + Len(old) - 1 <= Len(s)
  /\ \A k \in 1..Len(old) : s[i + k - 1] = old[k]

RECURSIVE ReplaceAllEmpty(_, _)
ReplaceAllEmpty(s, old) ==
  \* strings.ReplaceAll(s, old, ""): leftmost non-overlapping occurrences go
  IF old = <<>> \/ Len(s) < Len(old) THEN s
  ELSE IF HasPrefixAt(s, old, 1)
       THEN ReplaceAllEmpty(SubSeq(s, Len(old) + 1, Len(s)), old)
       ELSE <<Head(s)>> \o ReplaceAllEmpty(Tail(s), old)

LastSlash(s) ==
  \* index of the last "/" of s, 0 when there is none
  IF \E i \in 1..Len(s) : s[i] = "/"
  THEN CHOOSE i \in 1..Len(s) : s[i] = "/" /\ \A j \in (i+1)..Len(s) : s[j] # "/"
  ELSE 0

Ext(path) ==
  \* filepath.Ext: from the last "." of the last path element, else ""
  LET from == LastSlash(path) + 1
      dots == {i \in from..Len(path) : path[i] = "."}
  IN IF dots = {} THEN <<>>
     ELSE LET d == CHOOSE i \in dots : \A j \in dots : j <= i
          IN SubSeq(path, d, Len(path))

RECURSIVE SplitSlash(_)
SplitSlash(s) ==
  \* the "/"-separated elements of s, empty ones included
  IF \A i \in 1..Len(s) : s[i] # "/" THEN <<s>>
  ELSE LET i == CHOOSE k \in 1..Len(s) : s[k] = "/" /\ \A j \in 1..(k-1) : s[j] # "/"
       IN <<SubSeq(s, 1, i - 1)>> \o SplitSlash(SubSeq(s, i + 1, Len(s)))

RECURSIVE CleanElems(_, _, _)
CleanElems(elems, stack, rooted) ==
  \* filepath.Clean's pass over the elements: drop "" and ".", resolve ".."
  IF elems = <<>> THEN stack
  ELSE LET e == Head(elems)
           rest == Tail(elems)
       IN IF e = <<>> \/ e = <<".">> THEN CleanElems(rest, stack, rooted)
          ELSE IF e = <<".", ".">>
               THEN IF stack # <<>> /\ stack[Len(stack)] # <<".", ".">>
                    THEN CleanElems(rest, SubSeq(stack, 1, Len(stack) - 1), rooted)
                    ELSE IF rooted THEN CleanElems(rest, stack, rooted)
                         ELSE CleanElems(rest, Append(stack, e), rooted)
               ELSE CleanElems(rest, Append(stack, e), rooted)

RECURSIVE JoinSlash(_)
JoinSlash(elems) ==
  IF elems = <<>> THEN <<>>
  ELSE IF Len(elems) = 1 THEN elems[1]
       ELSE elems[1] \o <<"/">> \o JoinSlash(Tail(elems))

Clean(path) ==
  \* filepath.Clean: shortest equivalent path, "." for the empty one
  LET rooted == path # <<>> /\ path[1] = "/"
      body == JoinSlash(CleanElems(SplitSlash(path), <<>>, rooted))
      out == IF rooted THEN <<"/">> \o body ELSE body
  IN IF out = <<>> THEN <<".">> ELSE out

Dir(path) ==
  \* filepath.Dir: all but the last element of path, cleaned
  Clean(SubSeq(path, 1, LastSlash(path)))

----------------------------------------------------------------------------
(* File Classifier: isSupported and the part of h2non/filetype it calls. *)

\* size of the header buffer isSupported reads
HeadLen == 261

PdfMagic == <<37, 80, 68, 70>>
ZipMagic == <<80, 75, 3, 4>>
\* "mimetypeapplication/epub+zip", found at offset 30 of an EPUB container
EpubMime == <<109, 105, 109, 101, 116, 121, 112, 101, 97, 112, 112, 108, 105, 99,
              97, 116, 105, 111, 110, 47, 101, 112, 117, 98, 43, 122, 105, 112>>

\* An upload is [sig, len]: which signature its content starts with and how
\* many bytes it has.  Bytes gives the content.
Bytes(f) ==
  [i \in 1..f.len |->
     CASE f.sig = "pdf"  -> IF i <= 4 THEN PdfMagic[i] ELSE 32
       [] f.sig = "epub" -> IF i <= 4 THEN ZipMagic[i]
                            ELSE IF i >= 31 /\ i <= 58 THEN EpubMime[i - 30] ELSE 0
       [] f.sig = "zip"  -> IF i <= 4 THEN ZipMagic[i] ELSE 0
       [] OTHER          -> 97]

\* matchers.Pdf
IsPdf(buf) == Len(buf) > 3 /\ SubSeq(buf, 1, 4) = PdfMagic
\* matchers.Epub
IsEpub(buf) == Len(buf) > 57 /\ SubSeq(buf, 1, 4) = ZipMagic /\ SubSeq(buf, 31, 58) = EpubMime
\* matchers.Zip
IsZip(buf) ==
  /\ Len(buf) > 3
  /\ buf[1] = 80 /\ buf[2] = 75
  /\ buf[3] \in {3, 5, 7} /\ buf[4] \in {4, 6, 8}

\* filetype.Match(buf): the kind of the first registered matcher that
\* accepts buf, "unknown" when none does.  The matchers of one category are
\* registered by ranging over a Go map, so among the kinds that accept buf
\* any may come first: Match is the set of kinds it can return.
Match(buf) ==
  LET kinds == {k \in {"pdf", "epub", "zip"} :
                  \/ k = "pdf" /\ IsPdf(buf)
                  \/ k = "epub" /\ IsEpub(buf)
                  \/ k = "zip" /\ IsZip(buf)}
  IN IF kinds = {} THEN {"unknown"} ELSE kinds

\* io.ReadFull(file, head) from position pos: bytes read, error, new position
ReadFull(f, pos) ==
  LET avail == f.len - pos
  IN IF avail >= HeadLen THEN [n |-> HeadLen, err |-> "", pos |-> pos + HeadLen]
     ELSE IF avail = 0 THEN [n |-> 0, err |-> "EOF", pos |-> pos]
          ELSE [n |-> avail, err |-> "ErrUnexpectedEOF", pos |-> f.len]

\* isSupported(file) with the file at position pos: the set of outcomes
\* [ok, pos], pos being the read position the caller finds afterwards.
isSupported(f, pos) ==
  LET rd == ReadFull(f, pos)
  IN IF rd.err # ""
     THEN {[ok |-> FALSE, pos |-> rd.pos]}
     ELSE LET head == SubSeq(Bytes(f), pos + 1, pos + HeadLen)
          IN {[ok |-> kind \in {"epub", "pdf"}, pos |-> 0] : kind \in Match(head)}

----------------------------------------------------------------------------
(* Data model. *)

\* documents.Document; Tags come from a join and are left out.  Created and
\* Updated are clock readings, 0 for the zero time and for a nil *time.Time.
NoDoc ==
  [ID |-> <<>>, DisplayName |-> <<>>, Name |-> <<>>, Path |-> <<>>,
   Type |-> "", Description |-> "", Created |-> 0, Updated |-> 0]

\* uuid.New().String() for the n-th identifier handed out
UUID(n) == <<"uuid", n>>
\* an identifier that was never handed out
UnknownID == <<"nope">>

\* Objects a bucket may hold, in the order Bucket.List enumerates them (by
\* key): ".pdf", "a.b.pdf", "a.pdf", "b.txt", "c/", "d/d.pdf", "d/e.pdf".
DotKey == <<".", "p", "d", "f">>
ABKey == <<"a", ".", "b", ".", "p", "d", "f">>
AKey == <<"a", ".", "p", "d", "f">>
BKey == <<"b", ".", "t", "x", "t">>
CKey == <<"c", "/">>
DDKey == <<"d", "/", "d", ".", "p", "d", "f">>
DKey == <<"d", "/", "e", ".", "p", "d", "f">>
Universe ==
  << [Key |-> DotKey, IsDir |-> FALSE],
     [Key |-> ABKey, IsDir |-> FALSE],
     [Key |-> AKey, IsDir |-> FALSE],
     [Key |-> BKey, IsDir |-> FALSE],
     [Key |-> CKey, IsDir |-> TRUE],
     [Key |-> DDKey, IsDir |-> FALSE],
     [Key |-> DKey, IsDir |-> FALSE] >>
\* the objects that are put into the bucket while the service runs
Objects ==
  { [Key |-> AKey, IsDir |-> FALSE], [Key |-> BKey, IsDir |-> FALSE],
    [Key |-> CKey, IsDir |-> TRUE], [Key |-> DKey, IsDir |-> FALSE] }
\* every object a bucket may hold when the service starts
Stored == {Universe[i] : i \in 1..Len(Universe)}

\* file names an upload may carry (fileHeader.Filename)
UploadNames == {AKey}
\* display names a request may carry
DisplayNames == {<<"N">>}
\* types a caller may put on the draft
DraftTypes == {"paper"}
\* uploads a request may carry
Uploads ==
  { [sig |-> "pdf", len |-> 300], [sig |-> "pdf", len |-> 100],
    [sig |-> "epub", len |-> 300], [sig |-> "text", len |-> 300] }

\* error values: the chain of messages, outermost first; nil is <<>>
Nil == <<>>
ErrInvalidFileType == <<"invalid file type">>
Wrap(err, msg) == <<msg>> \o err
\* the error a failing library call (bucket, database driver) returns
LibErr == <<"dependency failure">>

----------------------------------------------------------------------------
(* State. *)

VARIABLES
  bucket,   \* Blob Store: the objects in the bucket
  rows,     \* Metadata Repository: the rows of table documents
  nextId,   \* the next identifier uuid.New() hands to an inserted row
  now,      \* the wall clock
  covers,   \* CreateCover tasks started and not yet run
  crashed,  \* the process died of a panic
  scanned,  \* the operation before this one was a Scan that ran to completion
  last,     \* the operation that just returned: inputs, dependency calls, result
  upload,   \* a stream given to the File Classifier on its own
  pipes,    \* the three tasks of each Scan call that is followed step by step
  hist      \* what has happened to the Scan calls followed step by step

vars == <<bucket, rows, nextId, now, covers, crashed, scanned, last, upload,
          pipes, hist>>

\* the shape of last; Idle: no operation is being answered
Idle ==
  [op |-> "none", via |-> "", id |-> <<>>, req |-> NoDoc,
   err |-> Nil, doc |-> NoDoc, hasDoc |-> FALSE, calls |-> <<>>,
   accepted |-> FALSE, pos |-> 0, saved |-> <<>>, inserted |-> 0,
   completed |-> FALSE, repeat |-> FALSE, docs |-> {}]

\* upload: the stream [sig, len], its read position, the classifier's verdict
NoUpload == [file |-> [sig |-> "none", len |-> 0], pos |-> 0, verdict |-> "none"]

\* the Scan calls followed step by step: two requests may be served at once
Scanners == {1, 2}

\* One Scan call: the goroutine of BucketStorage.List (l), the transform
\* goroutine of Scan (t) and the loop of UpsertStream (c), which runs in the
\* caller.  "off": not started; "send": blocked on its unbuffered channel
\* with the key lkey or the draft of key tkey in hand; "recv": waiting on
\* the channel it reads.  ckey: the key of the draft UpsertStream took.
IdlePipe ==
  [lpc |-> "off", li |-> 0, lkey |-> <<>>,
   tpc |-> "off", tkey |-> <<>>,
   cpc |-> "off", ckey |-> <<>>, cerr |-> Nil]

\* overlap: a Scan call was made while another was running; blind: an
\* existence query failed
NoHist == [overlap |-> FALSE, blind |-> FALSE]

Init ==
  /\ bucket = {}
  /\ rows = {}
  /\ nextId = 1
  /\ now = 1
  /\ covers = 0
  /\ crashed = FALSE
  /\ scanned = FALSE
  /\ last = Idle
  /\ upload = NoUpload
  /\ pipes = [p \in Scanners |-> IdlePipe]
  /\ hist = NoHist

\* The service takes the operations one at a time: the next one starts when
\* the last one has been answered.
Ready == ~crashed /\ last = Idle

\* the readings of the wall clock during a run (0 is "not set"), and the
\* readings it can give next
Clock == {1, 2}
Readings == {t \in Clock : t >= now}

----------------------------------------------------------------------------
(* Blob Store (common.BucketStorage). *)

\* BucketStorage.Save(fileName, reader) under fault f: "none", "writer"
\* (NewWriter fails, nothing written) or "copy" (io.Copy fails, the deferred
\* Close still commits what was written).
Save(fileName, f) ==
  [path |-> IF f = "none" THEN fileName ELSE <<>>,
   err |-> CASE f = "none" -> Nil
             [] f = "writer" -> Wrap(LibErr, "unable to creat upload writer")
             [] OTHER -> Wrap(LibErr, "failed to upload file"),
   bucket |-> IF f = "writer" THEN bucket
              ELSE bucket \cup {[Key |-> fileName, IsDir |-> FALSE]}]

\* BucketStorage.Get(path): a signed URL for the key, or the library's error
SignedURL(path) == <<"https://bucket/">> \o path \o <<"?sig">>
Get(path, fault) ==
  IF fault THEN [url |-> <<>>, err |-> LibErr]
  ELSE [url |-> SignedURL(path), err |-> Nil]

\* BucketStorage.List: the keys sent on the channel.  The iterator fails
\* after cut objects (cut = Len(Universe) : it reaches io.EOF); either way
\* the channel is closed and nothing else is reported.  Directories are not
\* sent.
RECURSIVE ListFrom(_, _)
ListFrom(i, cut) ==
  IF i > Len(Universe) \/ i > cut THEN <<>>
  ELSE IF Universe[i] \in bucket /\ ~Universe[i].IsDir
       THEN <<Universe[i].Key>> \o ListFrom(i + 1, cut)
       ELSE ListFrom(i + 1, cut)
List(cut) == ListFrom(1, cut)

----------------------------------------------------------------------------
(* Metadata Repository (database.PostgresDatabase). *)

\* PostgresDatabase.FindByID: the row, or an empty Document when the query
\* fails or finds nothing (row.Scan's error is only logged); never an error.
RepoFindByID(id, fault) ==
  IF ~fault /\ \E r \in rows : r.ID = id
  THEN CHOOSE r \in rows : r.ID = id
  ELSE NoDoc

\* PostgresDatabase.Insert into table rws at database time t: the columns
\* written are id, description, display_name, name, type, path; created is
\* the column default, updated stays NULL.
Insert(rws, doc, t) ==
  rws \cup {[doc EXCEPT !.Created = t, !.Updated = 0]}

\* PostgresDatabase.UpdateDocument at time t: rows with the document's id get
\* its description, display_name, type, and updated = t.
UpdateDocument(doc, t) ==
  { IF r.ID = doc.ID
    THEN [r EXCEPT !.Description = doc.Description,
                   !.DisplayName = doc.DisplayName,
                   !.Type = doc.Type,
                   !.Updated = t]
    ELSE r : r \in rows }

\* existsByPath without its query: no path is ever found
existsByPath_Never(rws, path, fault) == FALSE

\* PostgresDatabase.existsByPath on table rws: count(id) > 0; a failing
\* query leaves count at 0 and reports no error.
existsByPath(rws, path, fault) ==
  ~fault /\ \E r \in rws : r.Path = path

\* PostgresDatabase.Delete
DeleteRow(id) == {r \in rows : r.ID # id}

\* PostgresDatabase.UpsertStream over the drafts docs[i..upto], from table
\* rws with count rows inserted so far.  efail: the drafts whose existence
\* query fails; ifail: the draft whose insert fails (0: none); ts: the
\* database time at each draft.
RECURSIVE UpsertStream(_, _, _, _, _, _, _, _)
UpsertStream(docs, i, upto, rws, count, efail, ifail, ts) ==
  IF i > upto THEN [rows |-> rws, count |-> count, err |-> Nil]
  ELSE IF existsByPath(rws, docs[i].Path, i \in efail)
       THEN UpsertStream(docs, i + 1, upto, rws, count, efail, ifail, ts)
       ELSE IF i = ifail
            THEN [rows |-> rws, count |-> count,
                  err |-> <<"unable to upsert document">>]
            ELSE UpsertStream(docs, i + 1, upto,
                              Insert(rws, [docs[i] EXCEPT !.ID = UUID(nextId + count)],
                                     ts[i]),
                              count + 1, efail, ifail, ts)

----------------------------------------------------------------------------
(* Document Service (documents.documentService) and Book Service. *)

\* Add that writes the stream to the bucket before it looks at the
\* classifier's verdict
AddResult_SaveFirst(via, draft, cls, sfault, ifault, t, tdb) ==
  LET book == IF via = "books" THEN [draft EXCEPT !.Type = "book"] ELSE draft
      sv == Save(book.Name, sfault)
      doc == [book EXCEPT !.ID = UUID(nextId), !.Path = sv.path,
                          !.Created = t, !.Updated = t]
      out == IF sv.err # Nil
             THEN [err |-> Wrap(sv.err, "failed to write to storage"), doc |-> book,
                   calls |-> <<"storage.Save">>,
                   bucket |-> sv.bucket, rows |-> rows, ids |-> 0, cover |-> 0]
             ELSE IF ~cls.ok
             THEN [err |-> ErrInvalidFileType, doc |-> book, calls |-> <<>>,
                   bucket |-> sv.bucket, rows |-> rows, ids |-> 0, cover |-> 0]
             ELSE IF ifault
             THEN [err |-> Wrap(<<"unable to insert doc metadata">>,
                                "failed to store data in repo"),
                   doc |-> doc, calls |-> <<"storage.Save", "repo.Insert">>,
                   bucket |-> sv.bucket, rows |-> rows, ids |-> 1, cover |-> 0]
             ELSE [err |-> Nil, doc |-> doc,
                   calls |-> <<"storage.Save", "repo.Insert">>,
                   bucket |-> sv.bucket, rows |-> Insert(rows, doc, tdb), ids |-> 1,
                   cover |-> 1]
  IN [out EXCEPT !.err = IF via = "books" /\ out.err # Nil
                         THEN Wrap(out.err, "failed to store data in repo")
                         ELSE out.err]

\* Add that reads the clock once for created and again for updated
AddResult_StampTwice(via, draft, cls, sfault, ifault, t, tdb) ==
  LET book == IF via = "books" THEN [draft EXCEPT !.Type = "book"] ELSE draft
      sv == Save(book.Name, sfault)
      doc == [book EXCEPT !.ID = UUID(nextId), !.Path = sv.path,
                          !.Created = t, !.Updated = tdb]
      out == IF ~cls.ok
             THEN [err |-> ErrInvalidFileType, doc |-> book, calls |-> <<>>,
                   bucket |-> bucket, rows |-> rows, ids |-> 0, cover |-> 0]
             ELSE IF sv.err # Nil
             THEN [err |-> Wrap(sv.err, "failed to write to storage"), doc |-> book,
                   calls |-> <<"storage.Save">>,
                   bucket |-> sv.bucket, rows |-> rows, ids |-> 0, cover |-> 0]
             ELSE IF ifault
             THEN [err |-> Wrap(<<"unable to insert doc metadata">>,
                                "failed to store data in repo"),
                   doc |-> doc, calls |-> <<"storage.Save", "repo.Insert">>,
                   bucket |-> sv.bucket, rows |-> rows, ids |-> 1, cover |-> 0]
             ELSE [err |-> Nil, doc |-> doc,
                   calls |-> <<"storage.Save", "repo.Insert">>,
                   bucket |-> sv.bucket, rows |-> Insert(rows, doc, tdb), ids |-> 1,
                   cover |-> 1]
  IN [out EXCEPT !.err = IF via = "books" /\ out.err # Nil
                         THEN Wrap(out.err, "failed to store data in repo")
                         ELSE out.err]

\* documentService.Add(file, draft) on classifier outcome cls, called
\* directly (via = "documents") or through books.service.Add (via =
\* "books"), which sets the type to "book" first and wraps the error.
\* sfault, ifault: the faults of Save and Insert; t: time.Now(); tdb: the
\* database's time at the insert.  The result: the error, the caller's
\* draft as Add leaves it, the dependency calls made, the bucket and the
\* table afterwards, the identifiers used, the cover tasks started.
AddResult(via, draft, cls, sfault, ifault, t, tdb) ==
  LET book == IF via = "books" THEN [draft EXCEPT !.Type = "book"] ELSE draft
      sv == Save(book.Name, sfault)
      doc == [book EXCEPT !.ID = UUID(nextId), !.Path = sv.path,
                          !.Created = t, !.Updated = t]
      out == IF ~cls.ok
             THEN [err |-> ErrInvalidFileType, doc |-> book, calls |-> <<>>,
                   bucket |-> bucket, rows |-> rows, ids |-> 0, cover |-> 0]
             ELSE IF sv.err # Nil
             THEN [err |-> Wrap(sv.err, "failed to write to storage"), doc |-> book,
                   calls |-> <<"storage.Save">>,
                   bucket |-> sv.bucket, rows |-> rows, ids |-> 0, cover |-> 0]
             ELSE IF ifault
             THEN [err |-> Wrap(<<"unable to insert doc metadata">>,
                                "failed to store data in repo"),
                   doc |-> doc, calls |-> <<"storage.Save", "repo.Insert">>,
                   bucket |-> sv.bucket, rows |-> rows, ids |-> 1, cover |-> 0]
             ELSE [err |-> Nil, doc |-> doc,
                   calls |-> <<"storage.Save", "repo.Insert">>,
                   bucket |-> sv.bucket, rows |-> Insert(rows, doc, tdb), ids |-> 1,
                   cover |-> 1]
  IN [out EXCEPT !.err = IF via = "books" /\ out.err # Nil
                         THEN Wrap(out.err, "failed to store data in repo")
                         ELSE out.err]

\* isSupported(file) for every upload, the file being at its start
Verdicts == [f \in Uploads |-> isSupported(f, 0)]

Add ==
  /\ Ready
  /\ nextId <= MaxIds
  /\ \E via \in {"documents", "books"}, file \in Uploads, name \in UploadNames,
        dn \in DisplayNames, ty \in DraftTypes :
       \E cls \in Verdicts[file] :
         \E sfault \in IF cls.ok THEN {"none", "writer", "copy"} ELSE {"none"} :
           \E ifault \in IF cls.ok /\ sfault = "none" THEN BOOLEAN ELSE {FALSE},
              t \in IF cls.ok /\ sfault = "none" THEN Readings ELSE {now} :
             \E tdb \in IF ifault THEN {t} ELSE {u \in Readings : u >= t} :
               LET draft == [NoDoc EXCEPT !.DisplayName = dn, !.Name = name,
                                          !.Type = ty]
                   out == AddResult(via, draft, cls, sfault, ifault, t, tdb)
               IN /\ bucket' = out.bucket
                  /\ rows' = out.rows
                  /\ nextId' = nextId + out.ids
                  /\ now' = tdb
                  /\ covers' = covers + out.cover
                  /\ last' = [Idle EXCEPT !.op = "Add", !.via = via, !.req = draft,
                                          !.accepted = cls.ok, !.pos = cls.pos,
                                          !.saved = IF cls.ok THEN Save(name, sfault).path
                                                    ELSE <<>>,
                                          !.err = out.err, !.doc = out.doc,
                                          !.hasDoc = (out.err = Nil),
                                          !.calls = out.calls]
  /\ scanned' = FALSE
  /\ UNCHANGED <<crashed, upload, pipes, hist>>

\* documentService.CreateCover(id, path), the task Add starts: without
\* COVER_ENDPOINT (read at each call) logrus.Panic ends the process; a
\* failing request or a status other than 201 is logged.
CreateCover ==
  /\ ~crashed
  /\ covers > 0
  /\ covers' = covers - 1
  /\ \E endpoint \in {"", "cover:8080"} : crashed' = (endpoint = "")
  /\ UNCHANGED <<bucket, rows, nextId, now, scanned, last, upload, pipes, hist>>

\* documentService.FindByID(id).  rfault, gfault: the faults of the
\* repository query and of Bucket.SignedURL.
FindByIDResult(id, rfault, gfault) ==
  LET entity == RepoFindByID(id, rfault)
      g == Get(entity.Path, gfault)
  IN IF g.err # Nil
     THEN [err |-> Wrap(g.err, "unable to get path from storage"),
           doc |-> NoDoc, hasDoc |-> FALSE,
           calls |-> <<"repo.FindByID", "storage.Get">>]
     ELSE [err |-> Nil, doc |-> [entity EXCEPT !.Path = g.url], hasDoc |-> TRUE,
           calls |-> <<"repo.FindByID", "storage.Get">>]

\* identifiers a request may name
RequestIDs == {UnknownID} \cup {UUID(n) : n \in 1..(nextId - 1)}

FindByID ==
  /\ Ready
  /\ \E id \in RequestIDs, rfault \in BOOLEAN, gfault \in BOOLEAN :
       LET out == FindByIDResult(id, rfault, gfault)
       IN last' = [Idle EXCEPT !.op = "FindByID", !.id = id, !.err = out.err,
                               !.doc = out.doc, !.hasDoc = out.hasDoc,
                               !.calls = out.calls]
  /\ scanned' = FALSE
  /\ UNCHANGED <<bucket, rows, nextId, now, covers, crashed, upload, pipes, hist>>

\* PostgresDatabase.FindAll(filter): the rows whose type is the filter's (the
\* listing is ordered by display name; the order is left out)
RepoFindAll(type) == {r \in rows : r.Type = type}

\* books.service.FindAll: documentService.FindAll with the filter
\* type = "book"; each of the two wraps a failure of the query.
BooksFindAllResult(fault) ==
  IF fault
  THEN [err |-> Wrap(Wrap(<<"unable to fetch results">>,
                          "unable to fetch from repository"),
                     "unable to fetch from repository"),
        docs |-> {}, calls |-> <<"repo.FindAll">>]
  ELSE [err |-> Nil, docs |-> RepoFindAll("book"), calls |-> <<"repo.FindAll">>]

BooksFindAll ==
  /\ Ready
  /\ \E fault \in BOOLEAN :
       \E out \in {BooksFindAllResult(fault)} :
         last' = [Idle EXCEPT !.op = "books.FindAll", !.via = "books",
                              !.err = out.err, !.docs = out.docs,
                              !.calls = out.calls]
  /\ scanned' = FALSE
  /\ UNCHANGED <<bucket, rows, nextId, now, covers, crashed, upload, pipes, hist>>

\* books.service.FindByID: documentService.FindByID, its error wrapped
BooksFindByIDResult(id, rfault, gfault) ==
  LET out == FindByIDResult(id, rfault, gfault)
  IN [out EXCEPT !.err = IF out.err # Nil
                         THEN Wrap(out.err, "unable to fetch from repository")
                         ELSE Nil]

BooksFindByID ==
  /\ Ready
  /\ \E id \in RequestIDs, rfault \in BOOLEAN, gfault \in BOOLEAN :
       \E out \in {BooksFindByIDResult(id, rfault, gfault)} :
         last' = [Idle EXCEPT !.op = "books.FindByID", !.via = "books", !.id = id,
                              !.err = out.err, !.doc = out.doc,
                              !.hasDoc = out.hasDoc, !.calls = out.calls]
  /\ scanned' = FALSE
  /\ UNCHANGED <<bucket, rows, nextId, now, covers, crashed, upload, pipes, hist>>

\* a merge that takes any non-empty type
Merge_NoTypeCheck(entity, upd) ==
  LET e1 == IF upd.Description # "" THEN [entity EXCEPT !.Description = upd.Description]
            ELSE entity
      e2 == IF upd.DisplayName # <<>> THEN [e1 EXCEPT !.DisplayName = upd.DisplayName]
            ELSE e1
  IN IF upd.Type # ""
     THEN [err |-> Nil, doc |-> [e2 EXCEPT !.Type = upd.Type]]
     ELSE [err |-> Nil, doc |-> e2]

\* a merge that takes description and display name as sent, empty or not
Merge_Overwrite(entity, upd) ==
  LET e2 == [entity EXCEPT !.Description = upd.Description,
                           !.DisplayName = upd.DisplayName]
  IN IF upd.Type # ""
     THEN IF upd.Type = "book" \/ upd.Type = "paper"
          THEN [err |-> Nil, doc |-> [e2 EXCEPT !.Type = upd.Type]]
          ELSE [err |-> <<"unsupported type">>, doc |-> NoDoc]
     ELSE [err |-> Nil, doc |-> e2]

\* The merge of documentService.UpdateFields: the request's non-empty
\* description, display name and type onto the entity.
Merge(entity, upd) ==
  LET e1 == IF upd.Description # "" THEN [entity EXCEPT !.Description = upd.Description]
            ELSE entity
      e2 == IF upd.DisplayName # <<>> THEN [e1 EXCEPT !.DisplayName = upd.DisplayName]
            ELSE e1
  IN IF upd.Type # ""
     THEN IF upd.Type = "book" \/ upd.Type = "paper"
          THEN [err |-> Nil, doc |-> [e2 EXCEPT !.Type = upd.Type]]
          ELSE [err |-> <<"unsupported type">>, doc |-> NoDoc]
     ELSE [err |-> Nil, doc |-> e2]

\* documentService.UpdateFields(id, updatedDoc).  rfault, ufault: the faults
\* of the lookup and of the UPDATE; t: time.Now() in UpdateDocument.  The
\* repository's FindByID returns neither an error nor nil, so the two early
\* returns for them are never taken; after a lookup that found nothing the
\* UPDATE is sent with the empty identifier, which column id (uuid) refuses.
UpdateFieldsResult(id, upd, rfault, ufault, t) ==
  LET entity == RepoFindByID(id, rfault)
      m == Merge(entity, upd)
  IN IF m.err # Nil
     THEN [err |-> m.err, doc |-> NoDoc, rows |-> rows, calls |-> <<"repo.FindByID">>]
     ELSE IF ufault \/ m.doc.ID = <<>>
     THEN [err |-> <<"unable to update doc">>, doc |-> NoDoc, rows |-> rows,
           calls |-> <<"repo.FindByID", "repo.UpdateDocument">>]
     ELSE [err |-> Nil, doc |-> m.doc, rows |-> UpdateDocument(m.doc, t),
           calls |-> <<"repo.FindByID", "repo.UpdateDocument">>]

\* update requests: description, display name, type
Requests ==
  { <<"", <<>>, "">>, <<"about", <<>>, "">>, <<"", <<"M">>, "">>,
    <<"", <<>>, "paper">>, <<"about", <<"M">>, "paper">>,
    <<"", <<>>, "comic">>, <<"about", <<"M">>, "comic">> }

UpdateFields ==
  /\ Ready
  /\ \E id \in RequestIDs, rq \in Requests, rfault \in BOOLEAN :
       \E ufault \in IF rq[3] = "comic" THEN {FALSE} ELSE BOOLEAN :
         \E t \in IF rq[3] = "comic" \/ ufault THEN {now} ELSE Readings :
           LET upd == [NoDoc EXCEPT !.Description = rq[1], !.DisplayName = rq[2],
                                    !.Type = rq[3]]
               out == UpdateFieldsResult(id, upd, rfault, ufault, t)
           IN /\ rows' = out.rows
              /\ now' = t
              /\ last' = [Idle EXCEPT !.op = "UpdateFields", !.id = id, !.req = upd,
                                      !.err = out.err, !.doc = out.doc,
                                      !.hasDoc = (out.err = Nil),
                                      !.calls = out.calls]
  /\ scanned' = FALSE
  /\ UNCHANGED <<bucket, nextId, covers, crashed, upload, pipes, hist>>

\* documentService.Delete(id): the repository's DELETE, blobs stay
Delete ==
  /\ Ready
  /\ \E id \in RequestIDs, fault \in BOOLEAN :
       /\ rows' = IF fault THEN rows ELSE DeleteRow(id)
       /\ last' = [Idle EXCEPT !.op = "Delete", !.id = id,
                               !.err = IF fault THEN <<"unable to delete">> ELSE Nil,
                               !.calls = <<"repo.Delete">>]
  /\ scanned' = FALSE
  /\ UNCHANGED <<bucket, nextId, now, covers, crashed, upload, pipes, hist>>

\* The body of Scan's transform loop for one key: "skip" for a key whose
\* extension is not ".pdf", "panic" when name[0] indexes an empty name,
\* else the draft.  The identifier is given when the row is inserted; the
\* draft's Created (time.Now()) is not among the columns Insert writes.
PdfExt == <<".", "p", "d", "f">>
\* the Document literal for key path and name
NewDocument(path, name) ==
  [kind |-> "doc",
   doc |-> [NoDoc EXCEPT !.DisplayName = name, !.Name = name,
                         !.Path = path, !.Type = "book"]]
\* name[0] == '/' and what follows it, on the name left by the two ReplaceAll
Named(path, name) ==
  IF name = <<>> THEN [kind |-> "panic", doc |-> NoDoc]
  ELSE NewDocument(path, IF name[1] = "/" THEN Tail(name) ELSE name)
Draft(path) ==
  IF Ext(path) # PdfExt THEN [kind |-> "skip", doc |-> NoDoc]
  ELSE Named(path, ReplaceAllEmpty(ReplaceAllEmpty(path, Ext(path)), Dir(path)))

\* Draft of every key of the bucket
Drafts == [k \in {Universe[i].Key : i \in 1..Len(Universe)} |-> Draft(k)]

\* The transform goroutine over the listed keys: the drafts it sends, and
\* whether it panics after them.  Emit: one turn of its loop, d being the
\* outcome for the key at hand and rest the outcome of the turns after it.
Emit(d, rest) ==
  IF d.kind = "panic" THEN [docs |-> <<>>, panic |-> TRUE]
  ELSE IF d.kind = "skip" THEN rest
       ELSE [rest EXCEPT !.docs = <<d.doc>> \o rest.docs]

RECURSIVE Transform(_)
Transform(keys) ==
  IF keys = <<>> THEN [docs |-> <<>>, panic |-> FALSE]
  ELSE Emit(Drafts[Head(keys)], Transform(Tail(keys)))

\* nondecreasing clock readings for n drafts
Stamps(n) ==
  {ts \in [1..n -> Readings] : \A i \in 1..n : \A j \in i..n : ts[i] <= ts[j]}

\* documentService.Scan.  tr: what the transform goroutine makes of the
\* listed keys; cut: where Bucket.List's iterator fails; efail, ifail, ts:
\* as for UpsertStream.  A panic of the transform goroutine ends
\* the process, unless UpsertStream returned before the draft that precedes
\* the panicking key was taken (the goroutine then blocks on its send); the
\* consumer may or may not have finished the last draft it took (upto).
ScanResult(tr, cut, efail, ifail, ts, upto) ==
  LET n == Len(tr.docs)
      full == UpsertStream(tr.docs, 1, n, rows, 0, efail, ifail, ts)
      part == UpsertStream(tr.docs, 1, upto, rows, 0, efail, ifail, ts)
      dies == tr.panic /\ ~(full.err # Nil /\ ifail < n)
  IN IF dies
     THEN [rows |-> part.rows, count |-> part.count, err |-> <<"panic">>,
           crashed |-> TRUE, completed |-> FALSE]
     ELSE [rows |-> full.rows, count |-> full.count, err |-> full.err,
           crashed |-> FALSE,
           completed |-> cut = Len(Universe) /\ efail = {} /\ full.err = Nil]

Scan ==
  /\ Ready
  /\ \E cut \in 0..Len(Universe) :
       \E tr \in {Transform(List(cut))} :
         \E n \in {Len(tr.docs)} :
          \E efail \in SUBSET (1..n), ifail \in 0..n, ts \in Stamps(n),
             upto \in IF tr.panic /\ n > 0 THEN {n - 1, n} ELSE {n} :
            \E out \in {ScanResult(tr, cut, efail, ifail, ts, upto)} :
               /\ nextId + out.count - 1 <= MaxIds
               /\ rows' = out.rows
               /\ nextId' = nextId + out.count
               /\ now' = IF n = 0 THEN now ELSE ts[n]
               /\ crashed' = out.crashed
               /\ scanned' = out.completed
               /\ last' = [Idle EXCEPT !.op = "Scan", !.err = out.err,
                                       !.inserted = out.count,
                                       !.completed = out.completed,
                                       !.repeat = scanned,
                                       !.calls = <<"storage.List", "repo.UpsertStream">>]
  /\ UNCHANGED <<bucket, covers, upload, pipes, hist>>

\* A file or directory marker is put into the bucket from outside the service.
PutObject ==
  /\ Ready
  /\ \E o \in Objects \ bucket : bucket' = bucket \cup {o}
  /\ scanned' = FALSE
  /\ UNCHANGED <<rows, nextId, now, covers, crashed, last, upload, pipes, hist>>

\* The handler has written the response of the last operation.
Return ==
  /\ ~crashed
  /\ last # Idle
  /\ last' = Idle
  /\ UNCHANGED <<bucket, rows, nextId, now, covers, crashed, scanned, upload, pipes, hist>>

\* isSupported applied to a stream on its own
Classify ==
  /\ upload.verdict = "none"
  /\ upload.file.sig # "none"
  /\ \E o \in isSupported(upload.file, upload.pos) :
       upload' = [upload EXCEPT !.pos = o.pos,
                                !.verdict = IF o.ok THEN "accepted" ELSE "rejected"]
  /\ UNCHANGED <<bucket, rows, nextId, now, covers, crashed, scanned, last, pipes, hist>>

----------------------------------------------------------------------------
(* Scan step by step: the goroutines of one call and their channels. *)

\* the Scan call of scanner q is running: UpsertStream has not returned
Running(q) == pipes[q].cpc \in {"recv", "check", "insert"}

\* nothing of scanner p's last call is left: no task of it is alive
Free(p) ==
  /\ pipes[p].lpc \in {"off", "closed"}
  /\ pipes[p].tpc \in {"off", "closed"}
  /\ pipes[p].cpc \in {"off", "returned"}

\* documentService.Scan is called: List starts its goroutine, Scan starts
\* the transform goroutine and calls UpsertStream.
ScanCall(p) ==
  /\ ~crashed
  /\ Free(p)
  /\ pipes' = [pipes EXCEPT ![p] = [IdlePipe EXCEPT !.lpc = "next", !.li = 1,
                                                    !.tpc = "recv", !.cpc = "recv"]]
  /\ hist' = [hist EXCEPT !.overlap = @ \/ \E q \in Scanners \ {p} : Running(q)]
  /\ UNCHANGED <<bucket, rows, nextId, now, covers, crashed, scanned, last, upload>>

\* the index in Universe of the first object of the bucket from i on,
\* Len(Universe) + 1 when there is none
NextObject(i) ==
  IF \E j \in i..Len(Universe) : Universe[j] \in bucket
  THEN CHOOSE j \in i..Len(Universe) :
         Universe[j] \in bucket /\ \A k \in i..(j - 1) : Universe[k] \notin bucket
  ELSE Len(Universe) + 1

\* One turn of List's loop: iter.Next fails or is at io.EOF (the channel is
\* closed), gives a directory (next turn) or a key to send.
ListNext(p) ==
  /\ ~crashed
  /\ pipes[p].lpc = "next"
  /\ \E fail \in BOOLEAN :
       \E j \in {NextObject(pipes[p].li)} :
         pipes' = [pipes EXCEPT ![p] =
                     IF fail \/ j > Len(Universe) THEN [@ EXCEPT !.lpc = "closed"]
                     ELSE IF Universe[j].IsDir THEN [@ EXCEPT !.li = j + 1]
                     ELSE [@ EXCEPT !.lpc = "send", !.li = j + 1,
                                    !.lkey = Universe[j].Key]]
  /\ UNCHANGED <<bucket, rows, nextId, now, covers, crashed, scanned, last, upload, hist>>

\* List's send meets the transform goroutine's receive; the goroutine runs
\* its loop body on the key: next turn, a draft to send, or the panic.
PassKey(p) ==
  /\ ~crashed
  /\ pipes[p].lpc = "send"
  /\ pipes[p].tpc = "recv"
  /\ \E d \in {Drafts[pipes[p].lkey]} :
       /\ crashed' = (d.kind = "panic")
       /\ pipes' = [pipes EXCEPT ![p] =
                      IF d.kind = "doc"
                      THEN [@ EXCEPT !.lpc = "next", !.lkey = <<>>,
                                     !.tpc = "send", !.tkey = pipes[p].lkey]
                      ELSE [@ EXCEPT !.lpc = "next", !.lkey = <<>>]]
  /\ UNCHANGED <<bucket, rows, nextId, now, covers, scanned, last, upload, hist>>

\* the transform goroutine finds List's channel closed: its range loop ends
\* and the deferred close(docStream) runs
TransformClose(p) ==
  /\ ~crashed
  /\ pipes[p].lpc = "closed"
  /\ pipes[p].tpc = "recv"
  /\ pipes' = [pipes EXCEPT ![p].tpc = "closed"]
  /\ UNCHANGED <<bucket, rows, nextId, now, covers, crashed, scanned, last, upload, hist>>

\* the transform goroutine's send meets UpsertStream's receive
PassDoc(p) ==
  /\ ~crashed
  /\ pipes[p].tpc = "send"
  /\ pipes[p].cpc = "recv"
  /\ pipes' = [pipes EXCEPT ![p] = [@ EXCEPT !.tpc = "recv", !.tkey = <<>>,
                                             !.cpc = "check", !.ckey = pipes[p].tkey]]
  /\ UNCHANGED <<bucket, rows, nextId, now, covers, crashed, scanned, last, upload, hist>>

\* UpsertStream finds docStream closed: its range loop ends, it returns nil
UpsertReturn(p) ==
  /\ ~crashed
  /\ pipes[p].tpc = "closed"
  /\ pipes[p].cpc = "recv"
  /\ pipes' = [pipes EXCEPT ![p].cpc = "returned"]
  /\ UNCHANGED <<bucket, rows, nextId, now, covers, crashed, scanned, last, upload, hist>>

\* a loop that inserts whatever the existence query says
AfterExists_Insert(exists) == "insert"

\* UpsertStream after existsByPath: continue with the next draft, or insert
AfterExists(exists) == IF exists THEN "recv" ELSE "insert"

\* UpsertStream asks existsByPath for the draft it took
UpsertExists(p) ==
  /\ ~crashed
  /\ pipes[p].cpc = "check"
  /\ \E fault \in BOOLEAN :
       \E to \in {AfterExists(existsByPath(rows, Drafts[pipes[p].ckey].doc.Path, fault))} :
         /\ pipes' = [pipes EXCEPT ![p] =
                        IF to = "recv" THEN [@ EXCEPT !.cpc = to, !.ckey = <<>>]
                        ELSE [@ EXCEPT !.cpc = to]]
         /\ hist' = [hist EXCEPT !.blind = @ \/ fault]
  /\ UNCHANGED <<bucket, rows, nextId, now, covers, crashed, scanned, last, upload>>

\* UpsertStream inserts the draft: on an error it returns it at once, the
\* channel not drained; else it goes on to the next draft.
UpsertInsert(p) ==
  /\ ~crashed
  /\ pipes[p].cpc = "insert"
  /\ \/ /\ pipes' = [pipes EXCEPT ![p] =
                        [@ EXCEPT !.cpc = "returned", !.ckey = <<>>,
                                  !.cerr = <<"unable to upsert document">>]]
        /\ UNCHANGED <<rows, nextId>>
     \/ /\ nextId <= MaxIds
        /\ rows' = Insert(rows, [Drafts[pipes[p].ckey].doc EXCEPT !.ID = UUID(nextId)],
                           now)
        /\ nextId' = nextId + 1
        /\ pipes' = [pipes EXCEPT ![p] = [@ EXCEPT !.cpc = "recv", !.ckey = <<>>]]
  /\ UNCHANGED <<bucket, now, covers, crashed, scanned, last, upload, hist>>

\* one step of scanner p
Step(p) ==
  \/ ScanCall(p)
  \/ ListNext(p)
  \/ PassKey(p)
  \/ TransformClose(p)
  \/ PassDoc(p)
  \/ UpsertReturn(p)
  \/ UpsertExists(p)
  \/ UpsertInsert(p)

----------------------------------------------------------------------------
(* Specifications. *)

\* The whole service.
Next ==
  \/ Add
  \/ CreateCover
  \/ FindByID
  \/ UpdateFields
  \/ Delete
  \/ Scan
  \/ PutObject
  \/ BooksFindAll
  \/ BooksFindByID
  \/ Return
  \/ \E p \in Scanners : Step(p)

Spec == Init /\ [][Next]_vars

\* Ingestion and reconciliation: what puts rows into the table and takes
\* them out.  FindByID and UpdateFields write neither paths, identifiers
\* nor the bucket, which is all that these operations read.
NextIngest ==
  \/ Add
  \/ CreateCover
  \/ Scan
  \/ PutObject
  \/ Delete
  \/ Return

SpecIngest == Init /\ [][NextIngest]_vars

\* Lookup and update of the rows that uploads created.
NextRecords ==
  \/ Add
  \/ FindByID
  \/ UpdateFields
  \/ Delete
  \/ Return

SpecRecords == Init /\ [][NextRecords]_vars

\* The Book Service's reads over rows that uploads created and updates
\* changed.
NextBooks ==
  \/ Add
  \/ UpdateFields
  \/ BooksFindAll
  \/ BooksFindByID
  \/ Return

SpecBooks == Init /\ [][NextBooks]_vars

\* Reconciliation of a bucket that was filled before the service started:
\* up to MaxIds objects of any name.
InitScan ==
  /\ bucket \in {b \in SUBSET Stored : Cardinality(b) <= MaxIds}
  /\ rows = {}
  /\ nextId = 1
  /\ now = 1
  /\ covers = 0
  /\ crashed = FALSE
  /\ scanned = FALSE
  /\ last = Idle
  /\ upload = NoUpload
  /\ pipes = [p \in Scanners |-> IdlePipe]
  /\ hist = NoHist

NextScan ==
  \/ Scan
  \/ Return

SpecScan == InitScan /\ [][NextScan]_vars

\* Scan calls served at the same time over a bucket filled beforehand.
InitRace ==
  /\ bucket \in SUBSET Objects
  /\ rows = {}
  /\ nextId = 1
  /\ now = 1
  /\ covers = 0
  /\ crashed = FALSE
  /\ scanned = FALSE
  /\ last = Idle
  /\ upload = NoUpload
  /\ pipes = [p \in Scanners |-> IdlePipe]
  /\ hist = NoHist

NextRace == \E p \in Scanners : Step(p)

SpecRace == InitRace /\ [][NextRace]_vars

\* One Scan call after the other, each task of it running whenever it can:
\* the Go scheduler runs every goroutine that is not blocked.
NextPipeline == Step(1)

SpecPipeline == InitScan /\ [][NextPipeline]_vars /\ WF_vars(NextPipeline)

\* The File Classifier on streams of every length around the header size,
\* each at its start.
ClassifyLens == {0, 1, 3, 4, 5, 57, 58, 59, 100, 260, 261, 262, 300, 522}
ClassifyInputs ==
  {[sig |-> sg, len |-> n] : sg \in {"pdf", "epub", "zip", "text"}, n \in ClassifyLens}

InitClassify ==
  /\ bucket = {}
  /\ rows = {}
  /\ nextId = 1
  /\ now = 1
  /\ covers = 0
  /\ crashed = FALSE
  /\ scanned = FALSE
  /\ last = Idle
  /\ upload \in {[file |-> f, pos |-> 0, verdict |-> "none"] : f \in ClassifyInputs}
  /\ pipes = [p \in Scanners |-> IdlePipe]
  /\ hist = NoHist

SpecClassify == InitClassify /\ [][Classify]_vars

TypeOK ==
  /\ bucket \subseteq Stored
  /\ nextId \in 1..(MaxIds + 1)
  /\ now \in Clock
  /\ crashed \in BOOLEAN
  /\ \A r \in rows : r.ID \in {UUID(n) : n \in 1..MaxIds}

----------------------------------------------------------------------------
(* Claims. *)

\* the innermost error of a chain (errors.Cause)
Cause(err) == IF err = Nil THEN Nil ELSE <<err[Len(err)]>>
\* the step is the operation op returning
Returns(op) == last = Idle /\ last'.op = op
\* the request's identifier names a row
Hit == \E r \in rows : r.ID = last.id

\* C1: an Add whose stream the File Classifier rejects returns the
\* InvalidFileType error and makes no dependency call: the bucket and the
\* table are the same before and after.
C1_RejectedAddHasNoEffect ==
  [][(Returns("Add") /\ ~last'.accepted) =>
       /\ Cause(last'.err) = ErrInvalidFileType
       /\ (last'.via = "documents" => last'.err = ErrInvalidFileType)
       /\ last'.calls = <<>>
       /\ bucket' = bucket
       /\ rows' = rows]_vars

C1_Witness ==
  /\ last.op = "Add" /\ ~last.accepted /\ last.err = ErrInvalidFileType
  /\ rows # {} /\ bucket # {}

\* C2: the table never holds two rows with different identifiers and the
\* same storage path.
C2_OneRowPerPath ==
  \A r1 \in rows : \A r2 \in rows : r1.Path = r2.Path => r1.ID = r2.ID

DependencyMessages == {"unable to fetch from repository", "unable to get path from storage"}
C4_MissIsNotFound ==
  (last.op = "FindByID" /\ ~Hit) =>
     /\ last.err # Nil
     /\ last.err[1] \notin DependencyMessages
     /\ ~last.hasDoc

\* C5: UpdateFields with an identifier that names no row fails with a
\* not-found error and never calls the repository's update.
NotFoundErrors == {<<"unable to find entity">>, <<"entity does not exist">>}
C5_MissFailsBeforeWrite ==
  (last.op = "UpdateFields" /\ ~Hit) =>
     /\ last.err \in NotFoundErrors
     /\ \A i \in 1..Len(last.calls) : last.calls[i] # "repo.UpdateDocument"

\* C6: UpdateFields with a non-empty type other than "book" and "paper"
\* fails and leaves every row as it was, whatever else the request carries.
C6_BadTypeChangesNothing ==
  [][(Returns("UpdateFields") /\ last'.req.Type \notin {"", "book", "paper"}) =>
       (last'.err # Nil /\ rows' = rows)]_vars

C6_Witness ==
  /\ last.op = "UpdateFields" /\ Hit
  /\ last.req.Type = "comic"
  /\ last.req.Description # "" /\ last.req.DisplayName # <<>>
  /\ last.err # Nil

\* C7: UpdateFields changes a row's description, display name or type only
\* when the request carries a non-empty value for that field, and never its
\* identifier, stored name, path or created time; it adds and removes no row.
C7_PartialMerge ==
  [][Returns("UpdateFields") =>
       /\ {q.ID : q \in rows'} = {r.ID : r \in rows}
       /\ Cardinality(rows') = Cardinality(rows)
       /\ \A r \in rows : \E q \in rows' :
            /\ q.ID = r.ID
            /\ q.Name = r.Name /\ q.Path = r.Path /\ q.Created = r.Created
            /\ (q.Description # r.Description => last'.req.Description # "")
            /\ (q.DisplayName # r.DisplayName => last'.req.DisplayName # <<>>)
            /\ (q.Type # r.Type => last'.req.Type # "")]_vars

C7_Witness ==
  /\ last.op = "UpdateFields" /\ last.err = Nil
  /\ last.req.Description = "about" /\ last.req.DisplayName = <<>> /\ last.req.Type = ""
  /\ \E r \in rows : /\ r.ID = last.id /\ r.Description = "about"
                     /\ r.DisplayName = <<"N">> /\ r.Type = "book"
                     /\ r.Updated # 0

\* C8: the File Classifier accepts a stream exactly when its content carries
\* the PDF or the EPUB signature, whatever its length.
C8_SignatureDecides ==
  upload.verdict # "none" =>
    (upload.verdict = "accepted" <=>
       (IsPdf(Bytes(upload.file)) \/ IsEpub(Bytes(upload.file))))

\* C9: after the File Classifier returns, accepting or rejecting, the read
\* position of the stream is where it was before the call (its start).
C9_PositionRestored ==
  upload.verdict # "none" => upload.pos = 0

\* C10: after a successful Add the Document handed back has a non-empty
\* identifier, created equal to updated and the path Save returned; through
\* the Book Service its type is "book" whatever the draft said.
C10_AddedDocument ==
  (last.op = "Add" /\ last.err = Nil) =>
     /\ last.hasDoc
     /\ last.doc.ID # <<>>
     /\ last.doc.Created = last.doc.Updated
     /\ last.doc.Created # 0
     /\ last.doc.Path = last.saved
     /\ (last.via = "books" => last.doc.Type = "book")

C10_Witness ==
  /\ last.op = "Add" /\ last.err = Nil
  /\ last.via = "books" /\ last.req.Type = "paper"
  /\ last.doc.Path = AKey

\* C11: what the Book Service hands back is of type "book": every row of
\* FindAll, and the Document FindByID returns for an identifier that names
\* a row.
C11_BooksViewIsBooks ==
  /\ (last.op = "books.FindAll" => \A d \in last.docs : d.Type = "book")
  /\ ((last.op = "books.FindByID" /\ Hit /\ last.hasDoc) => last.doc.Type = "book")

\* C12: a run of the cover notifier, however it ends, leaves the answer Add
\* gave and the rows as they are, and the process alive.
C12_CoverFireAndForget ==
  [][covers' < covers => (last' = last /\ rows' = rows /\ ~crashed')]_vars

\* C13: an operation in which a Blob Store or repository call failed returns
\* an error.  For Scan: a run that did not complete (the enumeration broke
\* off, an existence query or an insert failed) has not returned nil.
C13_ScanReportsFailure ==
  (last.op = "Scan" /\ ~last.completed) => last.err # Nil

\* the keys of the bucket that Scan is to make a Document of
PdfKeys == {o.Key : o \in {b \in bucket : ~b.IsDir /\ Ext(b.Key) = PdfExt}}
\* the paths of a table
Paths(rws) == {r.Path : r \in rws}

\* C14: a Scan makes a row of nothing but a key whose extension is ".pdf",
\* does not stop at any key, and, when it completes, has a row for every
\* such key.
C14_PdfKeysGetDocuments ==
  [][Returns("Scan") =>
       /\ ~crashed'
       /\ Paths(rows' \ rows) \subseteq PdfKeys
       /\ (last'.completed => PdfKeys \subseteq Paths(rows'))]_vars

\* the final path segment of a key without its extension ".pdf"
Stem(path) == SubSeq(path, LastSlash(path) + 1, Len(path) - Len(PdfExt))

\* C16: every row a Scan makes has the key as its path, the key's final
\* segment without ".pdf" as its stored name and its display name, and the
\* type "book".
C16_DraftNamedByStem ==
  [][Returns("Scan") =>
       \A r \in rows' \ rows :
         /\ r.Path \in PdfKeys
         /\ r.Name = Stem(r.Path)
         /\ r.DisplayName = Stem(r.Path)
         /\ r.Type = "book"]_vars

\* two rows with different identifiers hold the same path
DoubleInsert == \E r1 \in rows : \E r2 \in rows : r1.Path = r2.Path /\ r1.ID # r2.ID

C17_PipelineShutsDown ==
  (pipes[1].cpc = "returned") ~>
     (crashed \/ (pipes[1].lpc = "closed" /\ pipes[1].tpc = "closed"))

====
